---- MODULE Spec2Model ----
(***************************************************************************)
(* CPU scheduling simulator (schedular_visualizer.py): the four policies   *)
(* fcfs, sjf_nonpreemptive, srtf and rr, and compute_metrics.              *)
(*                                                                         *)
(* A process identifier "Pk" is represented by the integer k; the          *)
(* dictionaries of the program keyed by pid are functions whose domain is  *)
(* the set of keys present.  A segment (start, dur) is the tuple           *)
(* <<start, dur>>.  One run of one policy on one process list is one       *)
(* behaviour: Init draws the call's arguments, then one action per loop    *)
(* iteration.                                                              *)
(***************************************************************************)
EXTENDS Integers, Sequences, FiniteSets

VARIABLES
    processes,   \* the argument `processes`: a list of Process records
    quantum,     \* the argument `quantum` of rr (0 when the policy has none)
    alg,         \* which policy is called: "fcfs", "sjf", "srtf", "rr"
    pc,          \* position: "call", the policy's loop, "ret", "done"
    procs,       \* fcfs: the sorted list
    idx,         \* fcfs: number of elements of procs already iterated
    time,        \* the simulation clock
    segments,    \* pid -> list of (start, dur)
    completion,  \* pid -> completion tick, for the pids that have one
    done,        \* sjf: set of finished pids
    remaining,   \* srtf, rr: pid -> remaining time
    last_pid,    \* srtf: pid that ran the preceding loop iteration, or None
    queue,       \* rr: the ready deque
    arrived,     \* rr: set of pids already enqueued once
    cur,         \* sjf, srtf: the selected process; rr: the dequeued pid
    metrics      \* the value returned by compute_metrics, or NoMetrics

vars == <<processes, quantum, alg, pc, procs, idx, time, segments, completion,
          done, remaining, last_pid, queue, arrived, cur, metrics>>

----------------------------------------------------------------------------
(* Bounds of the model *)
MaxProcs == 3
MaxArrival == 2
MaxTotalBurst == 4
MaxQuantum == 3
MaxClock == 20

----------------------------------------------------------------------------
(* Values *)
None == 0
NoMetrics == [tat |-> <<>>, wt |-> <<>>, avg_tat |-> <<0, 1>>, avg_wt |-> <<0, 1>>]

Process(pid, arrival, burst) ==
    [pid |-> pid, arrival |-> arrival, burst |-> burst, priority |-> 0]

\* The list built under __main__: P1(0,5), P2(1,3), P3(2,8).
MainProcesses == <<Process(1, 0, 5), Process(2, 1, 3), Process(3, 2, 8)>>

Max(a, b) == IF a >= b THEN a ELSE b
Min(a, b) == IF a <= b THEN a ELSE b

Pids(ps) == {ps[k].pid : k \in DOMAIN ps}

\* d[k] = v on a dictionary d (adds the key when absent)
DictSet(d, k, v) == [x \in DOMAIN d \cup {k} |-> IF x = k THEN v ELSE d[x]]

\* {p.pid: [] for p in ...}
EmptySegments(ps) == [p \in Pids(ps) |-> <<>>]

\* {p.pid: p.burst for p in processes}
BurstMap(ps) ==
    [p \in Pids(ps) |->
        ps[CHOOSE k \in DOMAIN ps :
             ps[k].pid = p /\ \A j \in DOMAIN ps : ps[j].pid = p => j <= k].burst]

RECURSIVE SumBursts(_)
SumBursts(ps) == IF ps = <<>> THEN 0 ELSE Head(ps).burst + SumBursts(Tail(ps))

\* Valid inputs within the bounds: unique ids, arrival >= 0, burst >= 1; at most
\* MaxProcs processes whose bursts add up to at most MaxTotalBurst.
BoundedInputs ==
    UNION {{ps \in {[k \in 1..n |-> Process(k, f[k][1], f[k][2])] :
                      f \in [1..n -> (0..MaxArrival) \X (1..(MaxTotalBurst - n + 1))]} :
              SumBursts(ps) <= MaxTotalBurst} : n \in 1..MaxProcs}

Inputs == BoundedInputs \cup {MainProcesses}

\* What the callers may also pass, since nothing checks the arguments: the empty
\* list, repeated ids, negative arrivals, bursts below 1, a quantum below 1.
UncheckedInputs ==
    UNION {[1..n -> {Process(i, a, b) : i \in 1..2, a \in -1..1, b \in -1..2}] :
              n \in 0..2}

UncheckedQuanta == (-1)..MaxQuantum

\* The loops of a call with such arguments need not end: the model follows them
\* while the clock and the segment lists are within MaxClock.
WithinClock ==
    /\ time < MaxClock
    /\ time > -MaxClock
    /\ \A p \in DOMAIN segments : Len(segments[p]) < MaxClock

----------------------------------------------------------------------------
(* sorted(processes, key=lambda p: p.arrival): a stable sort *)
RECURSIVE InsertBeforeEqualArrival(_, _)
InsertBeforeEqualArrival(s, p) ==
    IF s = <<>> THEN <<p>>
    ELSE IF s[Len(s)].arrival < p.arrival THEN Append(s, p)
    ELSE Append(InsertBeforeEqualArrival(SubSeq(s, 1, Len(s) - 1), p), s[Len(s)])

RECURSIVE InsertByArrival(_, _)
InsertByArrival(s, p) ==
    IF s = <<>> THEN <<p>>
    ELSE IF s[Len(s)].arrival <= p.arrival THEN Append(s, p)
    ELSE Append(InsertByArrival(SubSeq(s, 1, Len(s) - 1), p), s[Len(s)])

RECURSIVE SortedByArrivalDescending(_)
SortedByArrivalDescending(ps) ==
    IF ps = <<>> THEN <<>>
    ELSE LET k == CHOOSE i \in DOMAIN ps : \A j \in DOMAIN ps : ps[j].arrival <= ps[i].arrival
         IN <<ps[k]>> \o SortedByArrivalDescending(
                SubSeq(ps, 1, k - 1) \o SubSeq(ps, k + 1, Len(ps)))

RECURSIVE SortedByArrival(_)
SortedByArrival(ps) ==
    IF ps = <<>> THEN <<>>
    ELSE InsertByArrival(SortedByArrival(SubSeq(ps, 1, Len(ps) - 1)), ps[Len(ps)])

FcfsStartAtArrival(t, p) == p.arrival

FcfsStartAtClock(t, p) == t

\* start = max(time, p.arrival)
FcfsStartOf(t, p) == Max(t, p.arrival)

----------------------------------------------------------------------------
ReadyStrictlyBefore(ps, t, finished) ==
    SelectSeq(ps, LAMBDA p : p.arrival < t /\ p.pid \notin finished)

(* ready = [p for p in processes if p.arrival <= time and p.pid not in finished] *)
Ready(ps, t, finished) ==
    SelectSeq(ps, LAMBDA p : p.arrival <= t /\ p.pid \notin finished)

SjfSegmentOfOneTick(t, c) == <<t, 1>>

\* segments[cur.pid].append((time, cur.burst))
SjfSegment(t, c) == <<t, c.burst>>

\* min(ready, key=lambda p: p.burst): the first element of the least key
SjfSelect(ready) ==
    ready[CHOOSE k \in DOMAIN ready :
            /\ \A j \in DOMAIN ready : ready[k].burst <= ready[j].burst
            /\ \A j \in 1..(k - 1) : ready[j].burst > ready[k].burst]

SrtfSelectFirstReady(ready, rem) == ready[1]

\* min(ready, key=lambda p: remaining[p.pid]): the first element of the least key
SrtfSelect(ready, rem) ==
    ready[CHOOSE k \in DOMAIN ready :
            /\ \A j \in DOMAIN ready : rem[ready[k].pid] <= rem[ready[j].pid]
            /\ \A j \in 1..(k - 1) : rem[ready[j].pid] > rem[ready[k].pid]]

SrtfOpensSegmentEveryTick(last, pid) == TRUE

\* if last_pid != cur.pid: a new segment is opened
SrtfOpensSegment(last, pid) == last # pid

\* segments[pid][-1] = (start, dur + 1)
ExtendLast(segs) ==
    [segs EXCEPT ![Len(segs)] = <<segs[Len(segs)][1], segs[Len(segs)][2] + 1>>]

SrtfCompletionBeforeTick(t) == t

\* completion[cur.pid] = time, recorded by srtf after time += 1
SrtfCompletionTick(t) == t + 1

----------------------------------------------------------------------------
(* rr: for p in processes: if p.arrival <= time and p.pid not in arrived:     *)
(*         queue.append(p.pid); arrived.add(p.pid)                            *)
RECURSIVE Admit(_, _, _, _)
Admit(ps, t, q, arr) ==
    IF ps = <<>> THEN [queue |-> q, arrived |-> arr]
    ELSE LET p == Head(ps)
         IN IF p.arrival <= t /\ p.pid \notin arr
            THEN Admit(Tail(ps), t, Append(q, p.pid), arr \cup {p.pid})
            ELSE Admit(Tail(ps), t, q, arr)

RrRunWholeQuantum(q, rem) == q

RrRunToCompletion(q, rem) == rem

\* run = min(quantum, remaining[pid])
RrRun(q, rem) == Min(q, rem)

RrRequeueBeforeAdmit(ps, t, q, arr, pid, rem) ==
    Admit(ps, t, IF rem > 0 THEN Append(q, pid) ELSE q, arr)

\* the queue and arrived set after a slice of pid that ended at tick t with
\* remaining time rem: the second arrival check, then the re-enqueue
RrAfterSlice(ps, t, q, arr, pid, rem) ==
    LET a == Admit(ps, t, q, arr)
    IN IF rem > 0 THEN [a EXCEPT !.queue = Append(@, pid)] ELSE a

----------------------------------------------------------------------------
(* compute_metrics *)
LastWithPid(ps, pid) ==
    ps[CHOOSE k \in DOMAIN ps :
         ps[k].pid = pid /\ \A j \in DOMAIN ps : ps[j].pid = pid => j <= k]

TurnaroundLessBurst(ps, comp) ==
    [p \in Pids(ps) |-> comp[p] - LastWithPid(ps, p).burst]

ArrivalPlusBurst(ps, pid) == LastWithPid(ps, pid).arrival + LastWithPid(ps, pid).burst

\* tat[p.pid] = completion_times[p.pid] - p.arrival
Turnaround(ps, comp) == [p \in Pids(ps) |-> comp[p] - LastWithPid(ps, p).arrival]

WaitingLessArrival(ps, tat) == [p \in Pids(ps) |-> tat[p] - LastWithPid(ps, p).arrival]

\* wt[p.pid] = tat[p.pid] - p.burst
Waiting(ps, tat) == [p \in Pids(ps) |-> tat[p] - LastWithPid(ps, p).burst]

\* sum(d.values())
RECURSIVE SumValues(_, _)
SumValues(d, keys) ==
    IF keys = {} THEN 0
    ELSE LET k == CHOOSE x \in keys : TRUE
         IN d[k] + SumValues(d, keys \ {k})

\* The averages sum / len(processes) are kept as fractions <<numerator, denominator>>.
ComputeMetrics(ps, comp) ==
    LET tat == Turnaround(ps, comp)
        wt == Waiting(ps, tat)
    IN [tat |-> tat, wt |-> wt,
        avg_tat |-> <<SumValues(tat, DOMAIN tat), Len(ps)>>,
        avg_wt |-> <<SumValues(wt, DOMAIN wt), Len(ps)>>]

----------------------------------------------------------------------------
InitWith(inputs, quanta) ==
    /\ processes \in inputs
    /\ alg \in {"fcfs", "sjf", "srtf", "rr"}
    /\ quantum \in IF alg = "rr" THEN quanta ELSE {0}
    /\ pc = "call"
    /\ procs = <<>>
    /\ idx = 0
    /\ time = 0
    /\ segments = <<>>
    /\ completion = <<>>
    /\ done = {}
    /\ remaining = <<>>
    /\ last_pid = None
    /\ queue = <<>>
    /\ arrived = {}
    /\ cur = None
    /\ metrics = NoMetrics

\* a call with valid arguments
Init == InitWith(Inputs, 1..MaxQuantum)

\* a call with any arguments
UncheckedInit == InitWith(Inputs \cup UncheckedInputs, UncheckedQuanta)

----------------------------------------------------------------------------
(* fcfs *)
FcfsBegin ==
    /\ pc = "call" /\ alg = "fcfs"
    /\ procs' = SortedByArrival(processes)
    /\ time' = 0
    /\ segments' = EmptySegments(processes)
    /\ completion' = <<>>
    /\ idx' = 0
    /\ pc' = "fcfs"
    /\ UNCHANGED <<processes, quantum, alg, done, remaining, last_pid, queue,
                   arrived, cur, metrics>>

FcfsStep ==
    /\ pc = "fcfs" /\ idx < Len(procs)
    /\ LET p == procs[idx + 1]
           start == FcfsStartOf(time, p)
       IN /\ segments' = [segments EXCEPT ![p.pid] = Append(@, <<start, p.burst>>)]
          /\ time' = start + p.burst
          /\ completion' = DictSet(completion, p.pid, start + p.burst)
    /\ idx' = idx + 1
    /\ UNCHANGED <<processes, quantum, alg, pc, procs, done, remaining, last_pid,
                   queue, arrived, cur, metrics>>

FcfsReturn ==
    /\ pc = "fcfs" /\ idx = Len(procs)
    /\ pc' = "ret"
    /\ UNCHANGED <<processes, quantum, alg, procs, idx, time, segments, completion,
                   done, remaining, last_pid, queue, arrived, cur, metrics>>

----------------------------------------------------------------------------
(* sjf_nonpreemptive *)
SjfBegin ==
    /\ pc = "call" /\ alg = "sjf"
    /\ done' = {}
    /\ time' = 0
    /\ segments' = EmptySegments(processes)
    /\ completion' = <<>>
    /\ pc' = "sjf"
    /\ UNCHANGED <<processes, quantum, alg, procs, idx, remaining, last_pid, queue,
                   arrived, cur, metrics>>

\* one iteration of `while len(done) < n`
SjfStep ==
    /\ pc = "sjf" /\ Cardinality(done) < Len(processes)
    /\ WithinClock
    /\ LET ready == Ready(processes, time, done)
       IN IF ready = <<>>
          THEN /\ time' = time + 1
               /\ UNCHANGED <<segments, completion, done, cur>>
          ELSE LET c == SjfSelect(ready)
               IN /\ cur' = c.pid
                  /\ segments' = [segments EXCEPT ![c.pid] = Append(@, SjfSegment(time, c))]
                  /\ time' = time + c.burst
                  /\ completion' = DictSet(completion, c.pid, time + c.burst)
                  /\ done' = done \cup {c.pid}
    /\ UNCHANGED <<processes, quantum, alg, pc, procs, idx, remaining, last_pid,
                   queue, arrived, metrics>>

SjfReturn ==
    /\ pc = "sjf" /\ ~(Cardinality(done) < Len(processes))
    /\ pc' = "ret"
    /\ UNCHANGED <<processes, quantum, alg, procs, idx, time, segments, completion,
                   done, remaining, last_pid, queue, arrived, cur, metrics>>

----------------------------------------------------------------------------
(* srtf *)
SrtfBegin ==
    /\ pc = "call" /\ alg = "srtf"
    /\ remaining' = BurstMap(processes)
    /\ segments' = EmptySegments(processes)
    /\ completion' = <<>>
    /\ time' = 0
    /\ last_pid' = None
    /\ pc' = "srtf"
    /\ UNCHANGED <<processes, quantum, alg, procs, idx, done, queue, arrived, cur,
                   metrics>>

\* one iteration of `while len(completion) < len(processes)`
SrtfStep ==
    /\ pc = "srtf" /\ Cardinality(DOMAIN completion) < Len(processes)
    /\ WithinClock
    /\ LET ready == Ready(processes, time, DOMAIN completion)
       IN IF ready = <<>>
          THEN /\ time' = time + 1
               /\ UNCHANGED <<segments, completion, remaining, last_pid, cur>>
          ELSE LET c == SrtfSelect(ready, remaining)
                   opened == IF SrtfOpensSegment(last_pid, c.pid)
                             THEN Append(segments[c.pid], <<time, 0>>)
                             ELSE segments[c.pid]
               IN /\ cur' = c.pid
                  /\ remaining' = [remaining EXCEPT ![c.pid] = @ - 1]
                  /\ segments' = [segments EXCEPT ![c.pid] = ExtendLast(opened)]
                  /\ time' = time + 1
                  /\ completion' = IF remaining[c.pid] - 1 = 0
                                   THEN DictSet(completion, c.pid, SrtfCompletionTick(time))
                                   ELSE completion
                  /\ last_pid' = c.pid
    /\ UNCHANGED <<processes, quantum, alg, pc, procs, idx, done, queue, arrived,
                   metrics>>

SrtfReturn ==
    /\ pc = "srtf" /\ ~(Cardinality(DOMAIN completion) < Len(processes))
    /\ pc' = "ret"
    /\ UNCHANGED <<processes, quantum, alg, procs, idx, time, segments, completion,
                   done, remaining, last_pid, queue, arrived, cur, metrics>>

----------------------------------------------------------------------------
(* rr *)
RrBegin ==
    /\ pc = "call" /\ alg = "rr"
    /\ remaining' = BurstMap(processes)
    /\ queue' = <<>>
    /\ time' = 0
    /\ segments' = EmptySegments(processes)
    /\ completion' = <<>>
    /\ arrived' = {}
    /\ pc' = "rr"
    /\ UNCHANGED <<processes, quantum, alg, procs, idx, done, last_pid, cur, metrics>>

\* one iteration of `while len(completion) < len(processes)`
RrStep ==
    /\ pc = "rr" /\ Cardinality(DOMAIN completion) < Len(processes)
    /\ WithinClock
    /\ LET a == Admit(processes, time, queue, arrived)
       IN IF a.queue = <<>>
          THEN /\ time' = time + 1
               /\ queue' = a.queue
               /\ arrived' = a.arrived
               /\ UNCHANGED <<segments, completion, remaining, cur>>
          ELSE LET pid == Head(a.queue)
                   run == RrRun(quantum, remaining[pid])
                   b == RrAfterSlice(processes, time + run, Tail(a.queue), a.arrived,
                                     pid, remaining[pid] - run)
               IN /\ cur' = pid
                  /\ segments' = [segments EXCEPT ![pid] = Append(@, <<time, run>>)]
                  /\ time' = time + run
                  /\ remaining' = [remaining EXCEPT ![pid] = @ - run]
                  /\ queue' = b.queue
                  /\ arrived' = b.arrived
                  /\ completion' = IF remaining[pid] - run > 0
                                   THEN completion
                                   ELSE DictSet(completion, pid, time + run)
    /\ UNCHANGED <<processes, quantum, alg, pc, procs, idx, done, last_pid, metrics>>

RrReturn ==
    /\ pc = "rr" /\ ~(Cardinality(DOMAIN completion) < Len(processes))
    /\ pc' = "ret"
    /\ UNCHANGED <<processes, quantum, alg, procs, idx, time, segments, completion,
                   done, remaining, last_pid, queue, arrived, cur, metrics>>

----------------------------------------------------------------------------
(* compute_metrics(processes, comp) on the completion map the policy returned; *)
(* completion_times[p.pid] raises KeyError for a pid without an entry, and     *)
(* the division by len(processes) raises ZeroDivisionError for an empty list.  *)
Metrics ==
    /\ pc = "ret"
    /\ IF ~(Pids(processes) \subseteq DOMAIN completion)
       THEN /\ metrics' = NoMetrics
            /\ pc' = "KeyError"
       ELSE IF Len(processes) = 0
       THEN /\ metrics' = NoMetrics
            /\ pc' = "ZeroDivisionError"
       ELSE /\ metrics' = ComputeMetrics(processes, completion)
            /\ pc' = "done"
    /\ UNCHANGED <<processes, quantum, alg, procs, idx, time, segments, completion,
                   done, remaining, last_pid, queue, arrived, cur>>

Next ==
    \/ FcfsBegin \/ FcfsStep \/ FcfsReturn
    \/ SjfBegin \/ SjfStep \/ SjfReturn
    \/ SrtfBegin \/ SrtfStep \/ SrtfReturn
    \/ RrBegin \/ RrStep \/ RrReturn
    \/ Metrics

Spec == Init /\ [][Next]_vars

\* The program runs to the end: a step that can be taken is taken.
FairSpec == Spec /\ WF_vars(Next)

\* Calls with any arguments.
UncheckedSpec == UncheckedInit /\ [][Next]_vars

----------------------------------------------------------------------------
(* compute_metrics called on its own: a valid process list and any completion *)
(* map, with an entry for some or all of the processes, each entry within one *)
(* tick of arrival + burst.                                                   *)
CompletionMaps(ps) ==
    UNION {{[p \in keys |-> ArrivalPlusBurst(ps, p) + d[p]] : d \in [keys -> -1..1]} :
              keys \in SUBSET Pids(ps)}

MetricsInit ==
    /\ processes \in BoundedInputs
    /\ completion \in CompletionMaps(processes)
    /\ alg = "none"
    /\ quantum = 0
    /\ pc = "ret"
    /\ procs = <<>>
    /\ idx = 0
    /\ time = 0
    /\ segments = <<>>
    /\ done = {}
    /\ remaining = <<>>
    /\ last_pid = None
    /\ queue = <<>>
    /\ arrived = {}
    /\ cur = None
    /\ metrics = NoMetrics

MetricsSpec == MetricsInit /\ [][Metrics]_vars
----------------------------------------------------------------------------
(* Properties *)

Returned == pc \in {"ret", "done"}

ArrivalOf(pid) == LastWithPid(processes, pid).arrival
BurstOf(pid) == LastWithPid(processes, pid).burst

RECURSIVE SumDur(_)
SumDur(segs) == IF segs = <<>> THEN 0 ELSE segs[1][2] + SumDur(Tail(segs))

SegEnd(seg) == seg[1] + seg[2]

(* C1: when a policy has returned, the completion map has exactly the input  *)
(* pids as keys, and each process's segment durations sum to its burst.      *)
C1_CompleteAndBurstServed ==
    Returned =>
        /\ DOMAIN completion = Pids(processes)
        /\ DOMAIN segments = Pids(processes)
        /\ \A p \in Pids(processes) : SumDur(segments[p]) = BurstOf(p)

C1_Witness ==
    /\ Returned
    /\ Len(processes) >= 2
    /\ \E p \in Pids(processes) : Len(segments[p]) >= 2
    /\ DOMAIN completion = Pids(processes)

(* C2: in a policy's output no two segments of different processes overlap:  *)
(* their half-open intervals [s, s+d) are disjoint.                          *)
C2_NoOverlap ==
    Returned =>
        \A p1 \in DOMAIN segments, p2 \in DOMAIN segments :
            p1 # p2 =>
                \A i \in DOMAIN segments[p1], j \in DOMAIN segments[p2] :
                    \/ SegEnd(segments[p1][i]) <= segments[p2][j][1]
                    \/ SegEnd(segments[p2][j]) <= segments[p1][i][1]

C2_Witness ==
    /\ Returned
    /\ \E p1 \in DOMAIN segments, p2 \in DOMAIN segments :
          /\ p1 # p2
          /\ Len(segments[p1]) >= 2
          /\ \E j \in DOMAIN segments[p2] :
                /\ SegEnd(segments[p1][1]) = segments[p2][j][1]
                /\ SegEnd(segments[p2][j]) = segments[p1][2][1]

(* C3: compute_metrics on a policy's completion map gives every process      *)
(* turnaround >= burst and waiting >= 0.                                     *)
C3_MetricsNonNegative ==
    pc = "done" =>
        \A p \in Pids(processes) :
            /\ metrics.tat[p] >= BurstOf(p)
            /\ metrics.wt[p] >= 0

C3_Witness ==
    /\ pc = "done"
    /\ \E p \in Pids(processes) : metrics.wt[p] > 0
    /\ \E p \in Pids(processes) : metrics.wt[p] = 0 /\ metrics.tat[p] = BurstOf(p)

(* C4: a process's completion time is the end tick of its last segment, and  *)
(* its segment list is ordered by increasing start tick.                     *)
C4_CompletionIsLastSegmentEnd ==
    Returned =>
        \A p \in Pids(processes) :
            LET segs == segments[p]
            IN /\ segs # <<>>
               /\ completion[p] = SegEnd(segs[Len(segs)])
               /\ \A i \in 1..(Len(segs) - 1) : segs[i][1] < segs[i + 1][1]

C4_Witness ==
    /\ Returned
    /\ alg \in {"srtf", "rr"}
    /\ \E p \in Pids(processes) :
          /\ Len(segments[p]) >= 2
          /\ completion[p] = SegEnd(segments[p][Len(segments[p])])

MaxArrivalOf(ps) ==
    CHOOSE a \in {ps[k].arrival : k \in DOMAIN ps} :
        \A k \in DOMAIN ps : ps[k].arrival <= a

ClockBound == SumBursts(processes) + MaxArrivalOf(processes)

(* C5: every policy loop terminates, and throughout the run the clock is at  *)
(* most (sum of all burst times + maximum arrival time).                     *)
C5_TerminatesWithinBound ==
    /\ [](time <= ClockBound)
    /\ <>Returned

C5_Witness ==
    /\ Returned
    /\ MaxArrivalOf(processes) > 0
    /\ Len(processes) >= 2
    /\ time = ClockBound

IsMainRrRun ==
    /\ processes = MainProcesses
    /\ alg = "rr"
    /\ quantum = 2
    /\ Returned

Durations(segs) == [k \in DOMAIN segs |-> segs[k][2]]

\* between consecutive segments of pid a there is a segment of pid b
Interleaved(a, b) ==
    \A i \in 1..(Len(segments[a]) - 1) :
        \E j \in DOMAIN segments[b] :
            /\ SegEnd(segments[a][i]) <= segments[b][j][1]
            /\ SegEnd(segments[b][j]) <= segments[a][i + 1][1]

(* C6 as stated: on P1(0,5), P2(1,3), P3(2,8), rr with quantum 2 gives       *)
(* completions P1=14, P2=8, P3=16, P1 running in 3 segments of 2, 2 and 1    *)
(* ticks interleaved with P2 and P3.                                         *)
C6_AsStated ==
    IsMainRrRun =>
        /\ completion[1] = 14 /\ completion[2] = 8 /\ completion[3] = 16
        /\ Durations(segments[1]) = <<2, 2, 1>>
        /\ Interleaved(1, 2) /\ Interleaved(1, 3)

(* C6 amended: on P1(0,5), P2(1,3), P3(2,8), rr with quantum 2 gives         *)
(* completions P1=12, P2=9, P3=16, P1 running in 3 segments of 2, 2 and 1    *)
(* ticks interleaved with P2 and P3.                                         *)
C6_MainRoundRobin ==
    IsMainRrRun =>
        /\ completion[1] = 12 /\ completion[2] = 9 /\ completion[3] = 16
        /\ Durations(segments[1]) = <<2, 2, 1>>
        /\ Interleaved(1, 2) /\ Interleaved(1, 3)

C6_Witness == IsMainRrRun /\ DOMAIN completion = {1, 2, 3}

(* C7: on P1(0,5), P2(1,3), P3(2,8), fcfs and sjf_nonpreemptive both give    *)
(* completions P1=5, P2=8, P3=16.                                            *)
C7_MainFcfsSjf ==
    (processes = MainProcesses /\ alg \in {"fcfs", "sjf"} /\ Returned) =>
        completion[1] = 5 /\ completion[2] = 8 /\ completion[3] = 16

C7_Witness ==
    /\ processes = MainProcesses /\ alg = "sjf" /\ Returned
    /\ segments[3] = << <<8, 8>> >>

\* Reference FCFS order: the number of processes that run before processes[k],
\* those of smaller arrival, and of equal arrival and earlier input position.
FcfsRank(k) ==
    1 + Cardinality({j \in DOMAIN processes :
                        \/ processes[j].arrival < processes[k].arrival
                        \/ processes[j].arrival = processes[k].arrival /\ j < k})

FcfsAtRank(r) == processes[CHOOSE k \in DOMAIN processes : FcfsRank(k) = r]

RECURSIVE FcfsRefEnd(_)
FcfsRefEnd(r) ==
    IF r = 0 THEN 0
    ELSE Max(FcfsRefEnd(r - 1), FcfsAtRank(r).arrival) + FcfsAtRank(r).burst

(* C8: fcfs runs the processes in non-decreasing arrival order, equal        *)
(* arrivals in input order; each process has exactly one segment, starting   *)
(* at max(end of the previous process's segment or 0, its arrival) and       *)
(* lasting its burst; its completion is start + burst.                       *)
C8_FcfsReference ==
    (alg = "fcfs" /\ Returned) =>
        \A r \in 1..Len(processes) :
            LET p == FcfsAtRank(r)
                start == Max(FcfsRefEnd(r - 1), p.arrival)
            IN /\ segments[p.pid] = << <<start, p.burst>> >>
               /\ completion[p.pid] = start + p.burst

C8_Witness ==
    /\ alg = "fcfs" /\ Returned
    /\ \E j \in DOMAIN processes, k \in DOMAIN processes :
          /\ j < k
          /\ processes[j].arrival = processes[k].arrival
          /\ segments[processes[j].pid][1][1] < segments[processes[k].pid][1][1]
    /\ \E j \in DOMAIN processes, k \in DOMAIN processes :
          /\ j < k
          /\ processes[k].arrival < processes[j].arrival
          /\ segments[processes[k].pid][1][1] < segments[processes[j].pid][1][1]
    /\ \E k \in DOMAIN processes :
          segments[processes[k].pid][1][1] > processes[k].arrival

\* processes that have arrived and are unfinished, other than pid
OtherReady(pid, finished) ==
    {k \in DOMAIN processes :
        /\ processes[k].pid # pid
        /\ processes[k].arrival <= time
        /\ processes[k].pid \notin finished}

(* C9: every process sjf_nonpreemptive selects has burst <= the burst of     *)
(* every other arrived, unfinished process; every process srtf runs for a    *)
(* tick has, before the decrement, remaining time <= that of every other     *)
(* arrived, unfinished process.                                              *)
C9_SelectionMinimal ==
    [][/\ (pc = "sjf" /\ segments' # segments) =>
            \A k \in OtherReady(cur', done) : BurstOf(cur') <= processes[k].burst
       /\ (pc = "srtf" /\ segments' # segments) =>
            \A k \in OtherReady(cur', DOMAIN completion) :
                remaining[cur'] <= remaining[processes[k].pid]]_vars

\* srtf has just run cur while another arrived, unfinished process had more
\* remaining time; cur arrived later than that process (a preemption)
C9_Witness ==
    /\ pc = "srtf" /\ cur # None
    /\ \E k \in DOMAIN processes :
          /\ processes[k].pid # cur
          /\ processes[k].arrival < ArrivalOf(cur)
          /\ ArrivalOf(cur) < time
          /\ processes[k].pid \notin DOMAIN completion
          /\ remaining[processes[k].pid] < processes[k].burst
          /\ remaining[processes[k].pid] > remaining[cur] + 1

(* C10: every rr segment lasts min(quantum, remaining time before the        *)
(* slice): never more than the quantum, exactly the quantum when the process *)
(* still has remaining time after it, and only a process's final segment may *)
(* be shorter than the quantum, and is at least 1.                           *)
C10_RrSliceLength ==
    (alg = "rr" /\ pc # "call") =>
        \A p \in DOMAIN segments :
            \A k \in DOMAIN segments[p] :
                LET before == BurstOf(p) - SumDur(SubSeq(segments[p], 1, k - 1))
                    d == segments[p][k][2]
                IN /\ d = Min(quantum, before)
                   /\ d <= quantum
                   /\ d >= 1
                   /\ (before - d > 0 => d = quantum)
                   /\ (d < quantum => k = Len(segments[p]) /\ p \in DOMAIN completion)

C10_Witness ==
    /\ alg = "rr" /\ Returned
    /\ quantum >= 2
    /\ \E p \in DOMAIN segments :
          /\ Len(segments[p]) >= 2
          /\ segments[p][1][2] = quantum
          /\ segments[p][Len(segments[p])][2] < quantum

\* Section 7's valid configuration: a non-empty list, unique ids, arrival >= 0,
\* burst >= 1, and quantum >= 1 for rr.
ValidConfiguration ==
    /\ Len(processes) > 0
    /\ \A j \in DOMAIN processes, k \in DOMAIN processes :
          processes[j].pid = processes[k].pid => j = k
    /\ \A k \in DOMAIN processes : processes[k].arrival >= 0 /\ processes[k].burst >= 1
    /\ alg = "rr" => quantum >= 1

(* C11: a call with an invalid configuration is rejected before simulation   *)
(* begins: no policy loop runs and no timeline or completion map is made.    *)
C11_InvalidConfigurationRejected ==
    ~ValidConfiguration =>
        /\ pc \in {"call", "InvalidConfiguration"}
        /\ segments = <<>>
        /\ completion = <<>>

MetricsCalled == pc \in {"done", "KeyError", "ZeroDivisionError"}

(* C12: compute_metrics fails, returning no metrics, whenever some process   *)
(* has no entry in the completion map, and whenever the waiting time         *)
(* (completion - arrival - burst) computed for some process is negative.     *)
C12_MetricsRejectsInvalid ==
    (/\ MetricsCalled
     /\ \/ ~(Pids(processes) \subseteq DOMAIN completion)
        \/ \E k \in DOMAIN processes :
              /\ processes[k].pid \in DOMAIN completion
              /\ completion[processes[k].pid] - processes[k].arrival
                   - processes[k].burst < 0)
    => (pc # "done" /\ metrics = NoMetrics)

RECURSIVE SumOver(_, _)
SumOver(ps, d) == IF ps = <<>> THEN 0 ELSE d[Head(ps).pid] + SumOver(Tail(ps), d)

(* C13: compute_metrics returns turnaround = completion - arrival and        *)
(* waiting = turnaround - burst for each process, and each average is the    *)
(* sum of the per-process values over the number of processes.               *)
C13_MetricsArithmetic ==
    pc = "done" =>
        /\ DOMAIN metrics.tat = Pids(processes)
        /\ DOMAIN metrics.wt = Pids(processes)
        /\ \A k \in DOMAIN processes :
              LET p == processes[k]
              IN /\ metrics.tat[p.pid] = completion[p.pid] - p.arrival
                 /\ metrics.wt[p.pid] = metrics.tat[p.pid] - p.burst
        /\ metrics.avg_tat = <<SumOver(processes, metrics.tat), Len(processes)>>
        /\ metrics.avg_wt = <<SumOver(processes, metrics.wt), Len(processes)>>

C13_Witness ==
    /\ pc = "done"
    /\ alg = "none"
    /\ Len(processes) = 3
    /\ metrics.avg_tat[1] % 3 # 0
    /\ metrics.avg_wt[1] < 0
    /\ \E p \in Pids(processes) : metrics.wt[p] > 0

IndexOf(pid) == CHOOSE k \in DOMAIN processes : processes[k].pid = pid

\* processes[j] comes before processes[k] by arrival, then by input position
ArrivedFirst(j, k) ==
    \/ processes[j].arrival < processes[k].arrival
    \/ processes[j].arrival = processes[k].arrival /\ j < k

(* C14: when several arrived, unfinished processes share the smallest burst  *)
(* (sjf_nonpreemptive) or the smallest remaining time (srtf), the selected   *)
(* one has the earliest arrival among them, and among those of equal arrival *)
(* the earliest input position.                                              *)
C14_TieBreakByArrival ==
    [][/\ (pc = "sjf" /\ segments' # segments) =>
            \A k \in OtherReady(cur', done) :
                processes[k].burst = BurstOf(cur') => ArrivedFirst(IndexOf(cur'), k)
       /\ (pc = "srtf" /\ segments' # segments) =>
            \A k \in OtherReady(cur', DOMAIN completion) :
                remaining[processes[k].pid] = remaining[cur'] =>
                    ArrivedFirst(IndexOf(cur'), k)]_vars

\* position of pid in the sequence q
PositionIn(q, pid) == CHOOSE i \in DOMAIN q : q[i] = pid

\* pid a was appended to the ready queue before pid b in this iteration of rr,
\* both for the first time; the dequeued pid (cur') was the head of the queue
EnqueuedBefore(a, b) ==
    /\ a \in arrived' \ arrived
    /\ b \in arrived' \ arrived
    /\ a # b
    /\ IF a = cur' THEN ArrivalOf(b) <= time
       ELSE IF b = cur' THEN FALSE
       ELSE PositionIn(queue', a) < PositionIn(queue', b)

(* C15: rr appends newly arrived processes to the ready queue in arrival     *)
(* order, ties in input order: of two processes appended at the same arrival *)
(* check, the one with the smaller arrival time is ahead in the queue.       *)
C15_EnqueueInArrivalOrder ==
    [][pc = "rr" =>
          \A a \in arrived' \ arrived, b \in arrived' \ arrived :
              EnqueuedBefore(a, b) => ArrivedFirst(IndexOf(a), IndexOf(b))]_vars

\* rr has just run a slice of cur' that left it with remaining time
RrPreempts == pc = "rr" /\ segments' # segments /\ remaining'[cur'] > 0

\* every process that arrived by the end of a non-final slice of p has its
\* first slice before p's next slice
FirstSliceBeforeNextSlice ==
    alg = "rr" =>
        \A p \in DOMAIN segments, n \in DOMAIN segments :
            \A k \in 1..(Len(segments[p]) - 1) :
                (n # p /\ ArrivalOf(n) <= SegEnd(segments[p][k])) =>
                    /\ segments[n] # <<>>
                    /\ segments[n][1][1] < segments[p][k + 1][1]

(* C16: when a slice of rr ends at clock t with remaining time > 0, every    *)
(* not-yet-enqueued process with arrival <= t is put in the ready queue      *)
(* ahead of the re-enqueued process, so it gets its first slice before the   *)
(* preempted process's next slice.                                           *)
C16_ArrivalsAheadOfPreempted ==
    /\ [][RrPreempts =>
            /\ queue'[Len(queue')] = cur'
            /\ \A k \in DOMAIN processes :
                  processes[k].arrival <= time' => processes[k].pid \in arrived'
            /\ \A n \in arrived' \ arrived :
                  n # cur' => PositionIn(queue', n) < Len(queue')]_vars
    /\ []FirstSliceBeforeNextSlice

C16_Witness ==
    /\ alg = "rr"
    /\ \E p \in DOMAIN segments, n \in DOMAIN segments :
          \E k \in 1..(Len(segments[p]) - 1) :
              /\ n # p
              /\ ArrivalOf(n) = SegEnd(segments[p][k])
              /\ segments[n] # <<>>
              /\ segments[n][1][1] >= SegEnd(segments[p][k])
              /\ segments[n][1][1] < segments[p][k + 1][1]

\* pid ran during the tick that ends at t
RanUntil(pid, t) == \E i \in DOMAIN segments[pid] : SegEnd(segments[pid][i]) = t

Coalesced ==
    alg = "srtf" =>
        \A p \in DOMAIN segments :
            \A i \in DOMAIN segments[p], j \in DOMAIN segments[p] :
                /\ segments[p][i][2] >= 1
                /\ SegEnd(segments[p][i]) # segments[p][j][1]

(* C17: srtf opens a new segment for the process it runs at tick t exactly   *)
(* when that process did not run at tick t-1, and otherwise extends the open *)
(* segment by one; no process has two segments (s1, d1), (s2, d2) with       *)
(* s1 + d1 = s2, and no segment has duration 0.                              *)
C17_SrtfCoalesces ==
    /\ [][(pc = "srtf" /\ segments' # segments) =>
            LET old == segments[cur']
                new == segments'[cur']
            IN IF RanUntil(cur', time)
               THEN /\ Len(new) = Len(old)
                    /\ new[Len(new)] = <<old[Len(old)][1], old[Len(old)][2] + 1>>
               ELSE /\ Len(new) = Len(old) + 1
                    /\ new[Len(new)] = <<time, 1>>]_vars
    /\ []Coalesced

C17_Witness ==
    /\ alg = "srtf" /\ Returned
    /\ \E p \in DOMAIN segments :
          /\ Len(segments[p]) >= 2
          /\ \E i \in DOMAIN segments[p] : segments[p][i][2] >= 2

(* C18: sjf_nonpreemptive gives each process exactly one segment, of its     *)
(* full burst, and selects no other process between the segment's start and  *)
(* the process's completion.                                                 *)
C18_SjfNonPreemptive ==
    (alg = "sjf" /\ pc # "call") =>
        \A p \in DOMAIN segments :
            /\ p \in DOMAIN completion <=> segments[p] # <<>>
            /\ (Returned => segments[p] # <<>>)
            /\ segments[p] # <<>> =>
                  /\ Len(segments[p]) = 1
                  /\ segments[p][1][2] = BurstOf(p)
                  /\ completion[p] = SegEnd(segments[p][1])
                  /\ \A n \in DOMAIN segments : \A i \in DOMAIN segments[n] :
                        n # p => \/ segments[n][i][1] < segments[p][1][1]
                                 \/ segments[n][i][1] >= completion[p]

\* a shorter job arrived while a longer one was running and waited for its end
C18_Witness ==
    /\ alg = "sjf" /\ Returned
    /\ \E p \in DOMAIN segments, n \in DOMAIN segments :
          /\ ArrivalOf(n) > segments[p][1][1]
          /\ ArrivalOf(n) < completion[p]
          /\ BurstOf(n) < completion[p] - ArrivalOf(n)
          /\ segments[n][1][1] >= completion[p]

\* no segment covers tick t
IdleAt(t) ==
    \A p \in DOMAIN segments : \A i \in DOMAIN segments[p] :
        ~(segments[p][i][1] <= t /\ t < SegEnd(segments[p][i]))

\* every process that had arrived by tick t had completed by tick t
NoneWaitingAt(t) ==
    \A k \in DOMAIN processes :
        processes[k].arrival <= t =>
            /\ processes[k].pid \in DOMAIN completion
            /\ completion[processes[k].pid] <= t

(* C19: in all four policies the CPU is idle at a tick only if no arrived    *)
(* process is unfinished at that tick, and the clock advances without a      *)
(* segment only when no arrived, unfinished process exists.                  *)
C19_WorkConserving ==
    /\ [](pc # "call" => \A t \in 0..(time - 1) : IdleAt(t) => NoneWaitingAt(t))
    /\ [][(time' > time /\ segments' = segments) => NoneWaitingAt(time)]_vars

C19_Witness ==
    /\ Returned
    /\ Len(processes) >= 2
    /\ \E t \in 1..(time - 1) : IdleAt(t) /\ ~IdleAt(t - 1)

(* C20: no process runs before it arrives: every segment of a process starts *)
(* at or after the process's arrival time.                                   *)
C20_NoRunBeforeArrival ==
    \A p \in DOMAIN segments : \A i \in DOMAIN segments[p] :
        segments[p][i][1] >= ArrivalOf(p)

C20_Witness ==
    /\ Returned
    /\ \E p \in DOMAIN segments :
          segments[p] # <<>> /\ segments[p][1][1] = ArrivalOf(p) /\ ArrivalOf(p) > 0
    /\ \E p \in DOMAIN segments :
          segments[p] # <<>> /\ segments[p][1][1] > ArrivalOf(p)

====
